---- MODULE Spec2Model ----
(***************************************************************************)
(* universal-db-mcp: the call-tool request handler of the MCP server, in   *)
(* its two entry points (src/lib.js: the library createConnection plus the *)
(* server that uses it; src/index.js: the stand-alone server), the         *)
(* connection handle it opens per invocation, and the SQL each tool        *)
(* issues.  The database drivers (pg, mysql2) are the environment: every   *)
(* connect, query and end completes with success or with an error.         *)
(***************************************************************************)
EXTENDS Integers, Sequences, FiniteSets, TLC

\* ------------------------------------------------------------------ bounds

\* invocations the transport delivers in one behaviour (each may overlap the others)
NumCalls == 2
\* longest row list a driver answers with
MaxRows == 2

Calls == 1..NumCalls

\* ------------------------------------------------------------ JavaScript values

\* A JavaScript value: its type tag, its string payload, its number payload.
Undefined == [t |-> "undefined", s |-> "", n |-> 0]
Null == [t |-> "null", s |-> "", n |-> 0]
Str(x) == [t |-> "string", s |-> x, n |-> 0]
Num(k) == [t |-> "number", s |-> "", n |-> k]

\* ToBoolean: what `!v`, `a || b` and `if (v)` test.
Truthy(v) ==
    CASE v.t = "undefined" -> FALSE
      [] v.t = "null" -> FALSE
      [] v.t = "string" -> v.s # ""
      [] v.t = "number" -> v.n # 0
      [] OTHER -> TRUE

\* a || b
Or(a, b) == IF Truthy(a) THEN a ELSE b

Digits == <<"0", "1", "2", "3", "4", "5", "6", "7", "8", "9">>

RECURSIVE NatToStr(_)
NatToStr(k) ==
    IF k < 10 THEN Digits[k + 1] ELSE NatToStr(k \div 10) \o Digits[(k % 10) + 1]

\* ToString, as a template literal `${v}` converts its value.
ToStr(v) ==
    CASE v.t = "undefined" -> "undefined"
      [] v.t = "null" -> "null"
      [] v.t = "string" -> v.s
      [] v.t = "number" -> IF v.n < 0 THEN "-" \o NatToStr(0 - v.n) ELSE NatToStr(v.n)
      [] OTHER -> ""

\* ------------------------------------------------------------ configuration

\* The process environment the server is started with.
Envs ==
    [DB_TYPE : {Undefined, Str("postgres"), Str("mysql"), Str("sqlite")},
     DATABASE_URL : {Undefined, Str("db://app:pw@dbhost/urldb")},
     DB_HOST : {Undefined, Str("db.internal")},
     DB_PORT : {Undefined, Str("6000")},
     DB_NAME : {Undefined, Str("appdb")},
     DB_USER : {Undefined, Str("app")},
     DB_PASSWORD : {Undefined, Str("pw")}]

\* The module-level constants read from the environment.
ModuleConfig(e) == [e EXCEPT !.DB_HOST = Or(e.DB_HOST, Str("localhost"))]

\* The start-up checks: the process exits unless they pass.
StartupOk(c) ==
    /\ Truthy(c.DB_TYPE)
    /\ (Truthy(c.DATABASE_URL) \/ (Truthy(c.DB_NAME) /\ Truthy(c.DB_USER)))

\* The two servers of the repository.
Impls == {"lib", "index"}

IsPostgres(v) == v = Str("postgres")
IsMysql(v) == v = Str("mysql")

\* A slip: the last branch taken for every dialect that is not postgres.
createConnectionErrorElseMysql(impl, c) ==
    IF impl = "lib" /\ ~Truthy(c.DB_TYPE)
    THEN "DB_TYPE is required (postgres or mysql)"
    ELSE IF impl = "lib" /\ ~Truthy(c.DATABASE_URL)
                         /\ (~Truthy(c.DB_NAME) \/ ~Truthy(c.DB_USER))
    THEN "Either DATABASE_URL or DB_NAME and DB_USER are required"
    ELSE ""

\* createConnection / getConnection up to the driver call: the message of the
\* error thrown before any driver call, or "" when the driver is called.
createConnectionError(impl, c) ==
    IF impl = "lib" /\ ~Truthy(c.DB_TYPE)
    THEN "DB_TYPE is required (postgres or mysql)"
    ELSE IF impl = "lib" /\ ~Truthy(c.DATABASE_URL)
                         /\ (~Truthy(c.DB_NAME) \/ ~Truthy(c.DB_USER))
    THEN "Either DATABASE_URL or DB_NAME and DB_USER are required"
    ELSE IF IsPostgres(c.DB_TYPE) \/ IsMysql(c.DB_TYPE)
    THEN ""
    ELSE "Unsupported database type: " \o ToStr(c.DB_TYPE)

PgDefaultPort == 5432
MysqlDefaultPort == 3306

\* The argument handed to the driver: DATABASE_URL || { host, port, ... }.
DriverArg(c) ==
    IF Truthy(c.DATABASE_URL)
    THEN [url |-> c.DATABASE_URL, host |-> Undefined, port |-> Undefined,
          database |-> Undefined, user |-> Undefined, password |-> Undefined]
    ELSE [url |-> Undefined,
          host |-> IF c.DB_HOST = Undefined THEN Str("localhost") ELSE c.DB_HOST,
          port |-> Or(c.DB_PORT,
                      Num(IF IsPostgres(c.DB_TYPE) THEN PgDefaultPort
                          ELSE MysqlDefaultPort)),
          database |-> c.DB_NAME, user |-> c.DB_USER, password |-> c.DB_PASSWORD]

NoDriverArg ==
    [url |-> Null, host |-> Null, port |-> Null,
     database |-> Null, user |-> Null, password |-> Null]

\* The Connection Handle a successful connect returns.  backend is the driver
\* session its query and close are bound to; dbType and dbName are the fields
\* createConnection adds (getConnection's handle has neither).
NoHandle ==
    [state |-> "none", backend |-> "", dbType |-> Undefined, dbName |-> Undefined,
     closeCalls |-> 0, queries |-> 0]

HandleDbName(impl, c) == IF impl = "lib" THEN c.DB_NAME ELSE Undefined

NewHandle(impl, c) ==
    [state |-> "open", backend |-> ToStr(c.DB_TYPE),
     dbType |-> IF impl = "lib" THEN c.DB_TYPE ELSE Undefined,
     dbName |-> HandleDbName(impl, c),
     closeCalls |-> 0, queries |-> 0]

\* ------------------------------------------------------------ requests

ToolNames ==
    {"query", "list_tables", "describe_table", "list_databases",
     "table_row_count", "search_table"}

\* The `required` list each tool declares in the catalog list-tools returns.
RequiredArgs(name) ==
    CASE name = "query" -> {"sql"}
      [] name = "describe_table" -> {"table"}
      [] name = "table_row_count" -> {"table"}
      [] name = "search_table" -> {"table", "column", "value"}
      [] OTHER -> {}

\* request.params.arguments: absent altogether (present = FALSE), or a bag in
\* which a key that is missing reads as undefined.
NoArgs ==
    [present |-> FALSE, sql |-> Undefined, table |-> Undefined,
     column |-> Undefined, value |-> Undefined, limit |-> Undefined]

Bag(sql, table, column, value, limit) ==
    [present |-> TRUE, sql |-> sql, table |-> table,
     column |-> column, value |-> value, limit |-> limit]

\* Statements a caller sends to `query` besides a plain SELECT: one that
\* changes rows and returns none, and two statements in one text.
WriteSql == Str("UPDATE users SET active = 0")
MultiSql == Str("SELECT 1; SELECT 2")

ArgBags(name) ==
    CASE name = "query" ->
           {Bag(s, Undefined, Undefined, Undefined, Undefined) :
              s \in {Undefined, Str("SELECT 1"), WriteSql, MultiSql}}
      [] name \in {"describe_table", "table_row_count"} ->
           {Bag(Undefined, t, Undefined, Undefined, Undefined) :
              t \in {Undefined, Str("users")}}
      [] name = "search_table" ->
           {Bag(Undefined, t, c, v, l) :
              t \in {Undefined, Str("users")}, c \in {Undefined, Str("email")},
              v \in {Undefined, Str("gmail")},
              l \in {Undefined, Null, Num(0), Num(5)}}
      [] OTHER -> {Bag(Undefined, Undefined, Undefined, Undefined, Undefined)}

RequestNames == ToolNames \cup {"drop_everything"}

Requests ==
    UNION {{[name |-> nm, args |-> a] : a \in ArgBags(nm) \cup {NoArgs}} :
             nm \in RequestNames}

NoRequest == [name |-> "", args |-> NoArgs]

\* The arguments of `name` that its declared schema requires and the bag lacks.
MissingRequired(r) ==
    {k \in RequiredArgs(r.name) :
       \/ ~r.args.present
       \/ (k = "sql" /\ r.args.sql = Undefined)
       \/ (k = "table" /\ r.args.table = Undefined)
       \/ (k = "column" /\ r.args.column = Undefined)
       \/ (k = "value" /\ r.args.value = Undefined)}

\* ------------------------------------------------------------ dialect adapter

\* A statement handed to conn.query: the SQL value and the bound parameters.
Statement(sql, params) == [kind |-> "query", sql |-> sql, params |-> params, message |-> ""]
Throw(message) == [kind |-> "throw", sql |-> Undefined, params |-> <<>>, message |-> message]
NoPlan == [kind |-> "none", sql |-> Undefined, params |-> <<>>, message |-> ""]

\* The indentation of the SQL template literals: lib.js's sit in functions,
\* index.js's in the handler's branches.
Pad(impl) == IF impl = "lib" THEN "      " ELSE "          "
PadEnd(impl) == IF impl = "lib" THEN "    " ELSE "        "

\* The dialect tag and database name a tool branches on: the handle's fields
\* in lib.js, the module constants in index.js.
DbTypeOf(impl, c, h) == IF impl = "lib" THEN h.dbType ELSE c.DB_TYPE
DbNameOf(impl, c, h) == IF impl = "lib" THEN h.dbName ELSE c.DB_NAME

ListTablesSql(impl, schema) ==
    "\n" \o Pad(impl) \o "SELECT table_name, table_type"
    \o "\n" \o Pad(impl) \o "FROM information_schema.tables"
    \o "\n" \o Pad(impl) \o "WHERE table_schema = " \o schema
    \o "\n" \o Pad(impl) \o "ORDER BY table_name"
    \o "\n" \o PadEnd(impl)

ListTablesParams(impl, c, h) ==
    IF IsPostgres(DbTypeOf(impl, c, h)) THEN <<>> ELSE <<DbNameOf(impl, c, h)>>

listTables(impl, c, h) ==
    IF IsPostgres(DbTypeOf(impl, c, h))
    THEN Statement(Str(ListTablesSql(impl, "'public'")), ListTablesParams(impl, c, h))
    ELSE Statement(Str(ListTablesSql(impl, "?")), ListTablesParams(impl, c, h))

DescribeTableSql(impl, where) ==
    "\n" \o Pad(impl) \o "SELECT "
    \o "\n" \o Pad(impl) \o "  column_name,"
    \o "\n" \o Pad(impl) \o "  data_type,"
    \o "\n" \o Pad(impl) \o "  character_maximum_length,"
    \o "\n" \o Pad(impl) \o "  is_nullable,"
    \o "\n" \o Pad(impl) \o "  column_default"
    \o "\n" \o Pad(impl) \o "FROM information_schema.columns"
    \o "\n" \o Pad(impl) \o "WHERE " \o where
    \o "\n" \o Pad(impl) \o "ORDER BY ordinal_position"
    \o "\n" \o PadEnd(impl)

describeTable(impl, c, h, tableName) ==
    IF IsPostgres(DbTypeOf(impl, c, h))
    THEN Statement(Str(DescribeTableSql(impl, "table_name = $1")), <<tableName>>)
    ELSE Statement(Str(DescribeTableSql(impl, "table_schema = ? AND table_name = ?")),
                   <<DbNameOf(impl, c, h), tableName>>)

listDatabases(impl, c, h) ==
    IF IsPostgres(DbTypeOf(impl, c, h))
    THEN Statement(Str("\n" \o Pad(impl) \o "SELECT datname as database_name"
                       \o "\n" \o Pad(impl) \o "FROM pg_database"
                       \o "\n" \o Pad(impl) \o "WHERE datistemplate = false"
                       \o "\n" \o Pad(impl) \o "ORDER BY datname"
                       \o "\n" \o PadEnd(impl)), <<>>)
    ELSE Statement(Str("SHOW DATABASES"), <<>>)

getTableRowCount(tableName) ==
    Statement(Str("SELECT COUNT(*) as count FROM " \o ToStr(tableName)), <<>>)

DefaultLimit == 100

\* The limit searchTable binds.  lib.js: the default parameter `limit = 100`
\* replaces undefined only; index.js: `args.limit || 100` replaces every
\* falsy value.
SearchLimit(impl, limit) ==
    IF impl = "lib"
    THEN (IF limit = Undefined THEN Num(DefaultLimit) ELSE limit)
    ELSE Or(limit, Num(DefaultLimit))

SearchParams(impl, value, limit) ==
    <<Str("%" \o ToStr(value) \o "%"), SearchLimit(impl, limit)>>

searchTable(impl, c, h, tableName, columnName, value, limit) ==
    IF IsPostgres(DbTypeOf(impl, c, h))
    THEN Statement(Str("SELECT * FROM " \o ToStr(tableName) \o " WHERE "
                       \o ToStr(columnName) \o "::text ILIKE $1 LIMIT $2"),
                   SearchParams(impl, value, limit))
    ELSE Statement(Str("SELECT * FROM " \o ToStr(tableName) \o " WHERE "
                       \o ToStr(columnName) \o " LIKE ? LIMIT ?"),
                   SearchParams(impl, value, limit))

\* Reading a property of `args` when the request carried no arguments.
TypeErrorMessage(key) ==
    "Cannot read properties of undefined (reading '" \o key \o "')"

\* A slip: the message without the name.
UnknownToolNoName(name) == Throw("Unknown tool")

\* No branch matched the name: throw new Error(`Unknown tool: ${name}`).
UnknownTool(name) == Throw("Unknown tool: " \o name)

\* The property of args the search_table branch reads first: args.table in
\* lib.js's call of searchTable, args.limit in index.js (`args.limit || 100`).
FirstSearchArg(impl) == IF impl = "lib" THEN "table" ELSE "limit"

\* The tool branches of the handler, from the connect's return to the first
\* await: the statement the branch hands to conn.query, or the error it throws.
ToolPlan(impl, c, h, r) ==
    CASE r.name = "query" ->
           IF r.args.present THEN Statement(r.args.sql, <<>>)
           ELSE Throw(TypeErrorMessage("sql"))
      [] r.name = "list_tables" -> listTables(impl, c, h)
      [] r.name = "describe_table" ->
           IF r.args.present THEN describeTable(impl, c, h, r.args.table)
           ELSE Throw(TypeErrorMessage("table"))
      [] r.name = "list_databases" -> listDatabases(impl, c, h)
      [] r.name = "table_row_count" ->
           IF r.args.present THEN getTableRowCount(r.args.table)
           ELSE Throw(TypeErrorMessage("table"))
      [] r.name = "search_table" ->
           IF r.args.present
           THEN searchTable(impl, c, h, r.args.table, r.args.column,
                            r.args.value, r.args.limit)
           ELSE Throw(TypeErrorMessage(FirstSearchArg(impl)))
      [] OTHER -> UnknownTool(r.name)

\* ------------------------------------------------------------ driver answers

\* The row lists a driver answers a statement with; a row is named by its
\* position in the answer.
DriverResults == {[k \in 1..n |-> k] : n \in 0..MaxRows}

\* The values handle.query resolves with: a row list (an array), the result
\* header mysql2 answers a statement that returns no rows with (an object that
\* has no length), or undefined.  NoAnswer: no statement was answered.
RowList(R) == [t |-> "array", list |-> R]
ResultSetHeader == [t |-> "object", list |-> <<>>]
NoRows == [t |-> "undefined", list |-> <<>>]
NoAnswer == [t |-> "none", list |-> <<>>]

\* pg answers one statement with a result object, of which the handle
\* surfaces .rows, and several statements in one text with an array of result
\* objects, whose .rows is undefined; mysql2 answers the pair [first, fields],
\* of which the handle surfaces the first.
PgResult(R) == [rows |-> RowList(R), fields |-> <<>>]
PgMultiResult == [rows |-> NoRows, fields |-> <<>>]
MysqlResult(first) == <<first, <<>>>>

\* What the driver answers a statement with when it succeeds.  pg runs a
\* text with an empty parameter list as a simple query, which may hold several
\* statements, and answers a statement that returns no rows with an empty row
\* list; mysql2's execute prepares the text, which must be one statement (the
\* driver rejects any other), and answers a statement that returns no rows
\* with a result header.
DriverAnswers(backend, stmt) ==
    IF backend = "postgres"
    THEN (IF stmt.sql = MultiSql /\ stmt.params = <<>> THEN {PgMultiResult}
          ELSE IF stmt.sql = WriteSql THEN {PgResult(<<>>)}
          ELSE {PgResult(R) : R \in DriverResults})
    ELSE (IF stmt.sql = MultiSql THEN {}
          ELSE IF stmt.sql = WriteSql THEN {MysqlResult(ResultSetHeader)}
          ELSE {MysqlResult(RowList(R)) : R \in DriverResults})

\* handle.query: `return result.rows` (pg), `const [rows] = ...; return rows`
\* (mysql2).
HandleQueryResult(backend, raw) ==
    IF backend = "postgres" THEN raw.rows ELSE raw[1]

ConnectErrorMessage == "connect ECONNREFUSED"
QueryErrorMessage == "syntax error at or near"
EndErrorMessage == "Connection lost"

\* ------------------------------------------------------------ envelopes

\* The value a tool branch hands to JSON.stringify(..., null, 2); the
\* envelope keeps the value the text is the pretty-printed form of.  shape
\* names the keys that JSON.stringify keeps (a key whose value is undefined is
\* dropped): "results" is the bare value, "results[0]" its first element.
\* row = 0 stands for undefined (results[0] of an empty list or of a header).
NoJson == [shape |-> "none", count |-> 0, rows |-> NoAnswer, row |-> 0]

\* { count: results.length, list: results } for the keys countKey and listKey:
\* results.length is undefined on a result header and throws on undefined.
CountedShape(countKey, listKey, results) ==
    CASE results.t = "undefined" ->
           [throws |-> TypeErrorMessage("length"), json |-> NoJson]
      [] results.t = "array" ->
           [throws |-> "",
            json |-> [shape |-> "{" \o countKey \o "," \o listKey \o "}",
                      count |-> Len(results.list), rows |-> results, row |-> 0]]
      [] OTHER ->
           [throws |-> "",
            json |-> [shape |-> "{" \o listKey \o "}", count |-> 0,
                      rows |-> results, row |-> 0]]

\* What each tool branch hands to JSON.stringify from the value conn.query
\* resolved with, or the TypeError it throws on the way.
ShapeResult(name, results) ==
    CASE name = "query" -> CountedShape("rowCount", "rows", results)
      [] name = "search_table" -> CountedShape("matchCount", "results", results)
      [] name = "table_row_count" ->
           IF results.t = "undefined"
           THEN [throws |-> TypeErrorMessage("0"), json |-> NoJson]
           ELSE [throws |-> "",
                 json |-> [shape |-> "results[0]", count |-> 0, rows |-> NoAnswer,
                           row |-> IF Len(results.list) = 0 THEN 0
                                   ELSE results.list[1]]]
      [] OTHER ->
           [throws |-> "",
            json |-> [shape |-> "results", count |-> 0, rows |-> results, row |-> 0]]

\* { content: [{ type: "text", text }], isError? }: isError FALSE is the
\* envelope without the isError property.
SuccessEnvelope(json) == [isError |-> FALSE, text |-> "", json |-> json]
ErrorEnvelope(message) == [isError |-> TRUE, text |-> "Error: " \o message, json |-> NoJson]
NoEnvelope == [isError |-> FALSE, text |-> "", json |-> NoJson]

\* ------------------------------------------------------------ state

VARIABLES
    impl,        \* the server that runs: "lib" or "index"
    config,      \* its module constants DB_TYPE, DATABASE_URL, DB_HOST, ...
    pc,          \* per invocation: where the handler is suspended
    req,         \* per invocation: request.params
    conn,        \* the handler's `let conn`: a handle's name, 0 for undefined
    handle,      \* per handle (named by the invocation that created it)
    opHandle,    \* per invocation: the handle its pending query or close runs on
    connectArg,  \* per invocation: the argument of its driver connect
    issued,      \* per invocation: the statement it handed to conn.query
    pending,     \* per invocation: the envelope its try/catch returned
    envelope,    \* per invocation: the envelope delivered to the transport
    thrown,      \* per invocation: the message of the error it rejected with
    answer,      \* per invocation: the value its conn.query resolved with
    events       \* per invocation: what it did, in order

vars ==
    <<impl, config, pc, req, conn, handle, opHandle, connectArg, issued, pending,
      envelope, thrown, answer, events>>

Event(ev, h) == [ev |-> ev, h |-> h]

\* A slip: `let conn` declared at module level, one for all invocations.
ConnVarShared(i) == 1

\* The variable `conn` of invocation i: declared inside the handler, so one
\* per invocation.
ConnVar(i) == i

\* A slip: the close at the end of the try block instead of in finally.
FinallyClosesOnSuccess(h, out) == h # 0 /\ ~out.isError

\* finally { if (conn) { await conn.close(); } }
FinallyCloses(h, out) == h # 0

StartEnvs == {e \in Envs : StartupOk(ModuleConfig(e))}

InitCalls ==
    /\ pc = [i \in Calls |-> "idle"]
    /\ req = [i \in Calls |-> NoRequest]
    /\ conn = [i \in Calls |-> 0]
    /\ handle = [i \in Calls |-> NoHandle]
    /\ opHandle = [i \in Calls |-> 0]
    /\ connectArg = [i \in Calls |-> NoDriverArg]
    /\ issued = [i \in Calls |-> NoPlan]
    /\ pending = [i \in Calls |-> NoEnvelope]
    /\ envelope = [i \in Calls |-> NoEnvelope]
    /\ thrown = [i \in Calls |-> ""]
    /\ answer = [i \in Calls |-> NoAnswer]
    /\ events = [i \in Calls |-> <<>>]

Init ==
    /\ impl \in Impls
    /\ config \in {ModuleConfig(e) : e \in StartEnvs}
    /\ InitCalls

\* A slip: conn.close() called without await, the envelope returned at once.
ExitHandlerNoAwait(i, cn, hs, evs, out) ==
    LET h == cn[ConnVar(i)] IN
    /\ handle' = IF h # 0
                 THEN [hs EXCEPT ![h].closeCalls = @ + 1, ![h].state = "ending"]
                 ELSE hs
    /\ envelope' = [envelope EXCEPT ![i] = out]
    /\ pc' = [pc EXCEPT ![i] = "returned"]
    /\ events' = [events EXCEPT ![i] =
                    IF h # 0
                    THEN Append(Append(evs, Event("close", h)), Event("return", 0))
                    ELSE Append(evs, Event("return", 0))]
    /\ UNCHANGED <<opHandle, pending>>

\* The handler leaves its try/catch with envelope `out`: the finally block
\* closes the handle `conn` names, if any, and the handler then returns.
\* cn, hs and evs are conn, handle and events[i] as the step has left them.
ExitHandler(i, cn, hs, evs, out) ==
    LET h == cn[ConnVar(i)] IN
    IF FinallyCloses(h, out)
    THEN /\ handle' = [hs EXCEPT ![h].closeCalls = @ + 1, ![h].state = "ending"]
         /\ opHandle' = [opHandle EXCEPT ![i] = h]
         /\ pending' = [pending EXCEPT ![i] = out]
         /\ pc' = [pc EXCEPT ![i] = "closing"]
         /\ events' = [events EXCEPT ![i] = Append(evs, Event("close", h))]
         /\ UNCHANGED envelope
    ELSE /\ handle' = hs
         /\ envelope' = [envelope EXCEPT ![i] = out]
         /\ pc' = [pc EXCEPT ![i] = "returned"]
         /\ events' = [events EXCEPT ![i] = Append(evs, Event("return", 0))]
         /\ UNCHANGED <<opHandle, pending>>

\* The transport delivers a call-tool request: the handler runs up to its
\* first await, `await createConnection(...)`.  createConnection has either
\* thrown before any driver call (its promise is rejected, the handler resumes
\* in a later turn) or called the driver's connect.
CallTool(i, r) ==
    /\ pc[i] = "idle"
    /\ req' = [req EXCEPT ![i] = r]
    /\ LET err == createConnectionError(impl, config) IN
       IF err # ""
       THEN /\ pc' = [pc EXCEPT ![i] = "create_rejected"]
            /\ events' = [events EXCEPT ![i] = Append(@, Event("create_threw", 0))]
            /\ UNCHANGED <<connectArg, handle, opHandle, pending, envelope>>
       ELSE /\ connectArg' = [connectArg EXCEPT ![i] = DriverArg(config)]
            /\ pc' = [pc EXCEPT ![i] = "connecting"]
            /\ events' = [events EXCEPT ![i] = Append(@, Event("connect", 0))]
            /\ UNCHANGED <<handle, opHandle, pending, envelope>>
    /\ UNCHANGED <<impl, config, conn, issued, thrown, answer>>

\* The handler resumes from `await createConnection(...)` with the error
\* createConnection threw: catch builds the envelope, conn is still undefined.
CreateConnectionRejected(i) ==
    /\ pc[i] = "create_rejected"
    /\ ExitHandler(i, conn, handle, events[i],
                   ErrorEnvelope(createConnectionError(impl, config)))
    /\ UNCHANGED <<impl, config, req, conn, connectArg, issued, thrown, answer>>

\* The driver connect succeeds: createConnection returns the handle, the
\* handler assigns it to conn and runs the tool branch up to conn.query.
ConnectOk(i) ==
    /\ pc[i] = "connecting"
    /\ LET cn == [conn EXCEPT ![ConnVar(i)] = i]
           hs == [handle EXCEPT ![i] = NewHandle(impl, config)]
           q == cn[ConnVar(i)]
           plan == ToolPlan(impl, config, hs[q], req[i])
           evs == Append(events[i], Event("connected", i))
       IN /\ conn' = cn
          /\ IF plan.kind = "query"
             THEN /\ issued' = [issued EXCEPT ![i] = plan]
                  /\ handle' = [hs EXCEPT ![q].queries = @ + 1]
                  /\ opHandle' = [opHandle EXCEPT ![i] = q]
                  /\ pc' = [pc EXCEPT ![i] = "querying"]
                  /\ events' = [events EXCEPT ![i] = Append(evs, Event("query", q))]
                  /\ UNCHANGED <<pending, envelope>>
             ELSE /\ ExitHandler(i, cn, hs, evs, ErrorEnvelope(plan.message))
                  /\ UNCHANGED issued
    /\ UNCHANGED <<impl, config, req, connectArg, thrown, answer>>

\* The driver connect fails: createConnection rejects, conn stays undefined.
ConnectFail(i) ==
    /\ pc[i] = "connecting"
    /\ ExitHandler(i, conn, handle, Append(events[i], Event("connect_failed", 0)),
                   ErrorEnvelope(ConnectErrorMessage))
    /\ UNCHANGED <<impl, config, req, conn, connectArg, issued, thrown, answer>>

\* The statement succeeds: conn.query resolves and the branch shapes the
\* value into its envelope; a TypeError thrown while shaping goes to catch.
QueryOk(i) ==
    /\ pc[i] = "querying"
    /\ handle[opHandle[i]].state = "open"
    /\ \E raw \in DriverAnswers(handle[opHandle[i]].backend, issued[i]) :
         LET results == HandleQueryResult(handle[opHandle[i]].backend, raw)
             shaped == ShapeResult(req[i].name, results)
         IN /\ answer' = [answer EXCEPT ![i] = results]
            /\ ExitHandler(i, conn, handle,
                           Append(events[i], Event("query_ok", opHandle[i])),
                           IF shaped.throws # ""
                           THEN ErrorEnvelope(shaped.throws)
                           ELSE SuccessEnvelope(shaped.json))
    /\ UNCHANGED <<impl, config, req, conn, connectArg, issued, thrown>>

\* The statement fails: the catch block turns the error into an envelope.
QueryFail(i) ==
    /\ pc[i] = "querying"
    /\ ExitHandler(i, conn, handle,
                   Append(events[i], Event("query_failed", opHandle[i])),
                   ErrorEnvelope(QueryErrorMessage))
    /\ UNCHANGED <<impl, config, req, conn, connectArg, issued, thrown, answer>>

\* The driver's end() succeeds: the handler returns the pending envelope.
CloseOk(i) ==
    /\ pc[i] = "closing"
    /\ handle' = [handle EXCEPT ![opHandle[i]].state = "closed"]
    /\ envelope' = [envelope EXCEPT ![i] = pending[i]]
    /\ pc' = [pc EXCEPT ![i] = "returned"]
    /\ events' = [events EXCEPT ![i] =
                    Append(Append(@, Event("close_ok", opHandle[i])), Event("return", 0))]
    /\ UNCHANGED <<impl, config, req, conn, opHandle, connectArg, issued, pending, thrown,
                   answer>>

\* The driver's end() fails inside the finally block: the error replaces the
\* pending envelope and the handler rejects.
CloseFail(i) ==
    /\ pc[i] = "closing"
    /\ handle' = [handle EXCEPT ![opHandle[i]].state = "end_failed"]
    /\ thrown' = [thrown EXCEPT ![i] = EndErrorMessage]
    /\ pc' = [pc EXCEPT ![i] = "rejected"]
    /\ events' = [events EXCEPT ![i] =
                    Append(Append(@, Event("close_failed", opHandle[i])), Event("reject", 0))]
    /\ UNCHANGED <<impl, config, req, conn, opHandle, connectArg, issued, pending,
                   envelope, answer>>

\* One invocation, every configuration and every request.
Next ==
    \/ \E r \in Requests : CallTool(1, r)
    \/ CreateConnectionRejected(1)
    \/ ConnectOk(1)
    \/ ConnectFail(1)
    \/ QueryOk(1)
    \/ QueryFail(1)
    \/ CloseOk(1)
    \/ CloseFail(1)

Spec == Init /\ [][Next]_vars

\* Several invocations that may overlap: a URL-configured postgres server, a
\* field-configured mysql server and a server of an unsupported dialect, the
\* requests that reach every exit of the handler.
ConcEnvs ==
    {[DB_TYPE |-> Str("postgres"), DATABASE_URL |-> Str("db://app:pw@dbhost/urldb"),
      DB_HOST |-> Undefined, DB_PORT |-> Undefined, DB_NAME |-> Undefined,
      DB_USER |-> Undefined, DB_PASSWORD |-> Undefined],
     [DB_TYPE |-> Str("mysql"), DATABASE_URL |-> Undefined,
      DB_HOST |-> Undefined, DB_PORT |-> Undefined, DB_NAME |-> Str("appdb"),
      DB_USER |-> Str("app"), DB_PASSWORD |-> Str("pw")],
     [DB_TYPE |-> Str("sqlite"), DATABASE_URL |-> Str("db://app:pw@dbhost/urldb"),
      DB_HOST |-> Undefined, DB_PORT |-> Undefined, DB_NAME |-> Undefined,
      DB_USER |-> Undefined, DB_PASSWORD |-> Undefined]}

ConcRequests ==
    {[name |-> "query",
      args |-> Bag(Str("SELECT 1"), Undefined, Undefined, Undefined, Undefined)],
     [name |-> "list_tables",
      args |-> Bag(Undefined, Undefined, Undefined, Undefined, Undefined)],
     [name |-> "drop_everything", args |-> NoArgs]}

InitConc ==
    /\ impl \in Impls
    /\ config \in {ModuleConfig(e) : e \in ConcEnvs}
    /\ InitCalls

NextConc ==
    \E i \in Calls :
        \/ \E r \in ConcRequests : CallTool(i, r)
        \/ CreateConnectionRejected(i)
        \/ ConnectOk(i)
        \/ ConnectFail(i)
        \/ QueryOk(i)
        \/ QueryFail(i)
        \/ CloseOk(i)
        \/ CloseFail(i)

SpecConc == InitConc /\ [][NextConc]_vars

\* Every driver operation an invocation awaits completes, with success or
\* with an error, and the event loop then resumes the handler, as it does
\* after an await of a promise that is already rejected.  Nothing
\* obliges the transport to deliver a request.
DriverCompletes ==
    \A i \in Calls :
        /\ WF_vars(CreateConnectionRejected(i))
        /\ WF_vars(ConnectOk(i) \/ ConnectFail(i))
        /\ WF_vars(QueryOk(i) \/ QueryFail(i))
        /\ WF_vars(CloseOk(i) \/ CloseFail(i))

SpecFair == InitConc /\ [][NextConc]_vars /\ DriverCompletes

\* ------------------------------------------------------------ properties

Finished(i) == pc[i] \in {"returned", "rejected"}

HasEvent(i, ev) == \E k \in DOMAIN events[i] : events[i][k].ev = ev

\* How often invocation i did `ev` on handle h.
CountEvents(i, ev, h) == Cardinality({k \in DOMAIN events[i] : events[i][k] = Event(ev, h)})

\* C1: a Connection Handle that createConnection returned during an
\* invocation has its close() called exactly once before the invocation
\* finishes, whatever the outcome: never twice, and never zero times once the
\* invocation has finished.
C1_ClosedExactlyOnce ==
    \A i \in Calls :
        /\ handle[i].closeCalls <= 1
        /\ CountEvents(i, "close", i) = handle[i].closeCalls
        /\ (Finished(i) /\ HasEvent(i, "connected")) => handle[i].closeCalls = 1

\* A query error was thrown, and the handle was closed once before the return.
C1_Witness ==
    /\ pc[1] = "returned"
    /\ HasEvent(1, "query_failed")
    /\ envelope[1].isError
    /\ handle[1].closeCalls = 1

\* C2 as stated: an unknown tool name returns the error envelope
\* `Unknown tool: <name>` and no connect attempt is made.
C2_Original ==
    \A i \in Calls :
        (pc[i] # "idle" /\ req[i].name \notin ToolNames) =>
            /\ ~HasEvent(i, "connect")
            /\ connectArg[i] = NoDriverArg
            /\ Finished(i) =>
                 /\ pc[i] = "returned"
                 /\ envelope[i].isError
                 /\ envelope[i].text = "Error: Unknown tool: " \o req[i].name

\* C2 amended: an unknown tool name first makes the connect attempt (unless
\* the dialect is unsupported) and never issues a statement; every envelope
\* returned is error-flagged, and its text is `Error: Unknown tool: <name>`
\* exactly when the connect succeeded, the handle then being closed before
\* the return; otherwise it carries the connect error.
C2_UnknownToolAfterConnect ==
    \A i \in Calls :
        (pc[i] # "idle" /\ req[i].name \notin ToolNames) =>
            /\ issued[i] = NoPlan
            /\ ~HasEvent(i, "query")
            /\ (IsPostgres(config.DB_TYPE) \/ IsMysql(config.DB_TYPE)) =>
                 (HasEvent(i, "connect") /\ connectArg[i] # NoDriverArg)
            /\ pc[i] = "returned" =>
                 /\ envelope[i].isError
                 /\ (envelope[i].text = "Error: Unknown tool: " \o req[i].name)
                      <=> HasEvent(i, "connected")
                 /\ HasEvent(i, "connected") =>
                      (handle[i].state = "closed" /\ handle[i].closeCalls = 1)
                 /\ HasEvent(i, "connect_failed") =>
                      envelope[i].text = "Error: " \o ConnectErrorMessage

\* The unknown tool was reported after a connection was opened and closed.
C2_Witness ==
    /\ pc[1] = "returned"
    /\ req[1].name = "drop_everything"
    /\ HasEvent(1, "connected")
    /\ handle[1].state = "closed"
    /\ envelope[1].text = "Error: Unknown tool: drop_everything"

\* C3 as stated: an error at any step, the close included, ends in an
\* error-flagged envelope carrying its message; the handler never rejects.
C3_Original ==
    \A i \in Calls :
        /\ pc[i] # "rejected"
        /\ thrown[i] = ""
        /\ (pc[i] = "returned" /\ HasEvent(i, "connect_failed")) =>
             envelope[i] = ErrorEnvelope(ConnectErrorMessage)
        /\ (pc[i] = "returned" /\ HasEvent(i, "query_failed")) =>
             envelope[i] = ErrorEnvelope(QueryErrorMessage)

\* The configuration with DB_HOST, DB_PORT, DB_NAME, DB_USER and DB_PASSWORD
\* left unset.
ClearDiscrete(c) ==
    [c EXCEPT !.DB_HOST = Str("localhost"), !.DB_PORT = Undefined,
              !.DB_NAME = Undefined, !.DB_USER = Undefined, !.DB_PASSWORD = Undefined]

\* C4 as stated: with DATABASE_URL set, the discrete fields have no effect:
\* the driver connection argument, the SQL text and the bound parameters are
\* those of the same configuration with the discrete fields unset.
C4_Original ==
    \A i \in Calls :
        Truthy(config.DATABASE_URL) =>
            LET c0 == ClearDiscrete(config) IN
            /\ HasEvent(i, "connect") => connectArg[i] = DriverArg(c0)
            /\ HasEvent(i, "query") =>
                 issued[i] = ToolPlan(impl, c0, NewHandle(impl, c0), req[i])

\* C5 as stated: search_table binds exactly ["%" + value + "%", L], L being
\* 100 when limit is absent or falsy and the given limit otherwise; table and
\* column appear in the SQL text only.
C5_Original ==
    \A i \in Calls :
        (req[i].name = "search_table" /\ HasEvent(i, "query")) =>
            LET a == req[i].args IN
            /\ issued[i].params =
                 <<Str("%" \o ToStr(a.value) \o "%"),
                   IF Truthy(a.limit) THEN a.limit ELSE Num(100)>>
            /\ issued[i].sql \in
                 {Str("SELECT * FROM " \o ToStr(a.table) \o " WHERE "
                      \o ToStr(a.column) \o "::text ILIKE $1 LIMIT $2"),
                  Str("SELECT * FROM " \o ToStr(a.table) \o " WHERE "
                      \o ToStr(a.column) \o " LIKE ? LIMIT ?")}

\* The database a DATABASE_URL names (the path of the URL).
UrlDatabase(u) == IF u = Str("db://app:pw@dbhost/urldb") THEN Str("urldb") ELSE Undefined

\* The database name the connection is configured with.
ConfiguredDatabase(c) ==
    IF Truthy(c.DATABASE_URL) THEN UrlDatabase(c.DATABASE_URL) ELSE c.DB_NAME

\* C6 as stated: list_tables on postgres binds nothing and fixes the schema
\* to 'public'; on mysql it binds exactly one parameter, the database name the
\* connection was configured with, also when configured by DATABASE_URL only.
C6_Original ==
    \A i \in Calls :
        (req[i].name = "list_tables" /\ HasEvent(i, "query")) =>
            IF IsPostgres(config.DB_TYPE)
            THEN /\ issued[i].params = <<>>
                 /\ issued[i].sql = Str(ListTablesSql(impl, "'public'"))
            ELSE /\ Len(issued[i].params) = 1
                 /\ issued[i].params[1] = ConfiguredDatabase(config)

\* Invocation i queries and closes no handle but the one it created.
OwnHandleOnly(i) ==
    \A k \in DOMAIN events[i] :
        events[i][k].ev \in {"connected", "query", "query_ok", "query_failed",
                             "close", "close_ok", "close_failed"}
            => events[i][k].h = i

\* Invocation i's handle is open from its connect to its own close.
OpenUntilOwnClose(i) ==
    /\ handle[i].state = "open" <=> (HasEvent(i, "connected") /\ ~HasEvent(i, "close"))
    /\ handle[i].closeCalls = CountEvents(i, "close", i)

\* A step in which invocation i does nothing changes nothing of i.
Untouched(i) ==
    (events'[i] = events[i]) =>
        /\ handle'[i] = handle[i]
        /\ conn'[i] = conn[i]
        /\ pc'[i] = pc[i]
        /\ pending'[i] = pending[i]
        /\ envelope'[i] = envelope[i]
        /\ thrown'[i] = thrown[i]

\* C7: overlapping invocations each create and use their own handle, which
\* the other never queries or closes, and whatever one invocation does or
\* suffers (a failed connect, query or close) leaves the other's handle open
\* until its own close and its envelope unchanged.
C7_Isolation ==
    [][\A i \in Calls : OwnHandleOnly(i)' /\ OpenUntilOwnClose(i)' /\ Untouched(i)]_vars

\* Both in flight: invocation 1 is closing after a failed query while
\* invocation 2's query is pending on its own open handle.
C7_Witness ==
    /\ pc[1] = "closing"
    /\ HasEvent(1, "query_failed")
    /\ pc[2] = "querying"
    /\ opHandle[2] = 2
    /\ handle[2].state = "open"

\* C8: with DB_TYPE neither 'postgres' nor 'mysql', every invocation fails
\* with `Unsupported database type: <DB_TYPE>` without any driver connect or
\* query call, and the only way it finishes is by returning the error-flagged
\* envelope carrying that message.
C8_UnsupportedType ==
    \A i \in Calls :
        (pc[i] # "idle" /\ ~IsPostgres(config.DB_TYPE) /\ ~IsMysql(config.DB_TYPE)) =>
            /\ pc[i] \in {"create_rejected", "returned"}
            /\ pc[i] = "create_rejected" =>
                 (events[i] = <<Event("create_threw", 0)>> /\ envelope[i] = NoEnvelope)
            /\ pc[i] = "returned" =>
                 /\ events[i] = <<Event("create_threw", 0), Event("return", 0)>>
                 /\ envelope[i].isError
                 /\ envelope[i].text =
                      "Error: Unsupported database type: " \o config.DB_TYPE.s
            /\ connectArg[i] = NoDriverArg
            /\ issued[i] = NoPlan
            /\ handle[i] = NoHandle

\* An invocation on a server started with DB_TYPE=sqlite has returned.
C8_Witness ==
    /\ config.DB_TYPE = Str("sqlite")
    /\ pc[1] = "returned"
    /\ req[1].name = "list_tables"
    /\ envelope[1].text = "Error: Unsupported database type: sqlite"

\* C9 as stated: an invocation that lacks an argument its tool declares
\* required is rejected with an error envelope and executes no statement (no
\* SQL text is handed to the driver).
C9_Original ==
    \A i \in Calls :
        (pc[i] # "idle" /\ MissingRequired(req[i]) # {}) =>
            /\ ~(HasEvent(i, "query") /\ issued[i].sql.t = "string")
            /\ pc[i] = "returned" => envelope[i].isError

\* The invocation's statement succeeded and its envelope was returned.
Succeeded(i) == pc[i] = "returned" /\ HasEvent(i, "query_ok") /\ HasEvent(i, "close_ok")

\* The shape C10 states for tool `name` answered with `results`.
StatedShape(name, results, j) ==
    /\ name = "query" =>
         (j.shape = "{rowCount,rows}" /\ j.rows = results
          /\ j.count = Len(results.list))
    /\ name = "search_table" =>
         (j.shape = "{matchCount,results}" /\ j.rows = results
          /\ j.count = Len(results.list))
    /\ name = "table_row_count" =>
         (j.shape = "results[0]"
          /\ j.row = IF results.list = <<>> THEN 0 ELSE Head(results.list))
    /\ name \in {"list_tables", "describe_table", "list_databases"} =>
         (j.shape = "results" /\ j.rows = results)

\* C10 as stated: a successful query returns {rowCount, rows} and a
\* successful search_table {matchCount, results}, the count being the number
\* of rows; table_row_count returns the first row only; list_tables,
\* describe_table and list_databases return the driver's row list unchanged;
\* no successful envelope carries isError.
C10_Original ==
    \A i \in Calls :
        Succeeded(i) =>
            /\ ~envelope[i].isError
            /\ StatedShape(req[i].name, answer[i], envelope[i].json)

\* What the handler does keep of C10: the stated shapes whenever the
\* statement was answered with a row list; a result header comes back as
\* {rows} without rowCount, and an answer without rows as an error envelope.
C10_RowListShapeHolds ==
    \A i \in Calls :
        Succeeded(i) =>
            /\ answer[i].t = "array" =>
                 (~envelope[i].isError
                  /\ StatedShape(req[i].name, answer[i], envelope[i].json))
            /\ answer[i].t = "object" =>
                 (~envelope[i].isError
                  /\ envelope[i].json.shape \in {"{rows}", "results"}
                  /\ envelope[i].json.rows = ResultSetHeader)
            /\ answer[i].t = "undefined" =>
                 (envelope[i].isError
                  /\ envelope[i].text \in
                       {"Error: " \o TypeErrorMessage("length"),
                        "Error: " \o TypeErrorMessage("0")})

\* The position of invocation i's first event `ev`, 0 when it has none.
FirstAt(i, ev) ==
    IF HasEvent(i, ev)
    THEN CHOOSE k \in DOMAIN events[i] :
           /\ events[i][k].ev = ev
           /\ \A m \in 1..(k - 1) : events[i][m].ev # ev
    ELSE 0

\* How often invocation i did `ev`, on whatever handle.
Times(i, ev) == Cardinality({k \in DOMAIN events[i] : events[i][k].ev = ev})

\* C11: within one invocation the events occur in the order connect, at
\* most one query on the returned handle, close, delivery of the envelope:
\* the envelope is never delivered before the handle's close has completed,
\* and no query is issued on a handle after its close has started.
C11_EventOrder ==
    \A i \in Calls :
        /\ Times(i, "connect") <= 1 /\ Times(i, "query") <= 1
        /\ Times(i, "close") <= 1 /\ Times(i, "return") <= 1
        /\ HasEvent(i, "connected") =>
             (FirstAt(i, "connect") = 1 /\ FirstAt(i, "connected") = 2)
        /\ HasEvent(i, "query") =>
             /\ HasEvent(i, "connected")
             /\ FirstAt(i, "connected") < FirstAt(i, "query")
             /\ events[i][FirstAt(i, "query")].h = events[i][FirstAt(i, "connected")].h
        /\ HasEvent(i, "close") =>
             /\ HasEvent(i, "connected")
             /\ FirstAt(i, "connected") < FirstAt(i, "close")
             /\ \A k \in DOMAIN events[i] :
                  events[i][k].ev = "query" => k < FirstAt(i, "close")
        /\ HasEvent(i, "return") =>
             /\ FirstAt(i, "return") = Len(events[i])
             /\ pc[i] = "returned"
             /\ HasEvent(i, "connected") =>
                  /\ HasEvent(i, "close_ok")
                  /\ FirstAt(i, "close") < FirstAt(i, "close_ok")
                  /\ FirstAt(i, "close_ok") < FirstAt(i, "return")
                  /\ handle[i].state = "closed"
        /\ pc[i] = "returned" <=> HasEvent(i, "return")
        /\ pc[i] = "querying" =>
             (handle[opHandle[i]].state = "open" /\ handle[opHandle[i]].closeCalls = 0)

\* A full run: connect, query, close, delivery.
C11_Witness ==
    /\ pc[1] = "returned"
    /\ events[1] = <<Event("connect", 0), Event("connected", 1), Event("query", 1),
                     Event("query_ok", 1), Event("close", 1), Event("close_ok", 1),
                     Event("return", 0)>>
    /\ ~envelope[1].isError

\* The part of C12 about retries: at most one connect attempt and one
\* statement per invocation, none after a failure, and no statement after a
\* failed connect.
NoRetry(i) ==
    /\ Times(i, "connect") <= 1
    /\ Times(i, "query") <= 1
    /\ HasEvent(i, "connect_failed") =>
         (~HasEvent(i, "query") /\ issued[i] = NoPlan /\ handle[i] = NoHandle
          /\ FirstAt(i, "connect") < FirstAt(i, "connect_failed"))
    /\ HasEvent(i, "query_failed") =>
         \A k \in DOMAIN events[i] :
            events[i][k].ev \in {"connect", "query"} => k < FirstAt(i, "query_failed")

\* C12 as stated: every invocation makes at most one connect attempt and
\* executes at most one statement; when the connect or the statement fails
\* it performs no further connect or query and returns an error envelope; a
\* failed connect never leads to a query.
C12_Original ==
    \A i \in Calls :
        /\ NoRetry(i)
        /\ (Finished(i) /\ (HasEvent(i, "connect_failed") \/ HasEvent(i, "query_failed"))) =>
             /\ pc[i] = "returned"
             /\ envelope[i].isError

\* What the handler does keep of C12: no retry, and an error envelope
\* whenever an envelope is returned after a failure.
C12_NoRetryHolds ==
    \A i \in Calls :
        /\ NoRetry(i)
        /\ (pc[i] = "returned" /\ (HasEvent(i, "connect_failed") \/ HasEvent(i, "query_failed")))
             => envelope[i].isError

\* The handler of invocation i is running (suspended at an await).
InProgress(i) == pc[i] \in {"create_rejected", "connecting", "querying", "closing"}

\* Handle h was created and its close has not completed.
StillOpen(h) == handle[h].state \in {"open", "ending"}

NoLeak == (\A i \in Calls : ~InProgress(i)) => (\A h \in Calls : ~StillOpen(h))

\* C13 as stated: if every driver operation completes and the scheduler is
\* fair, every invocation eventually returns exactly one envelope, and
\* whenever no invocation is in progress no handle remains open.
C13_Original ==
    /\ \A i \in Calls :
         (pc[i] # "idle") ~> (pc[i] = "returned" /\ envelope[i] # NoEnvelope)
    /\ [](\A i \in Calls : Times(i, "return") <= 1)
    /\ []NoLeak

\* What the handler does keep of C13: every invocation eventually finishes,
\* by returning one envelope or by rejecting, and no handle outlives the
\* invocations.
C13_FinishesHolds ==
    /\ \A i \in Calls : (pc[i] # "idle") ~> Finished(i)
    /\ [](\A i \in Calls :
            /\ Times(i, "return") <= 1
            /\ pc[i] = "returned" => envelope[i] # NoEnvelope
            /\ pc[i] = "rejected" => (envelope[i] = NoEnvelope /\ HasEvent(i, "close_failed")))
    /\ []NoLeak

====
